---------------------------- MODULE Spec2Model ----------------------------
(***************************************************************************)
(* Model of the activity normalisation scripts normalise_strava.py and     *)
(* preprocess_tcx.py.                                                      *)
(*                                                                         *)
(* Strings are sequences of one-character strings.  An optional value      *)
(* (Python None or a value) is the empty tuple or a one-element tuple.     *)
(* Floats are exact fixed-point integers: seconds, metres and beats are    *)
(* whole numbers, altitudes are hundredths of a metre, and every value     *)
(* produced by round(x, 1) is a number of tenths.                          *)
(***************************************************************************)
EXTENDS Integers, Sequences, FiniteSets, TLC

VARIABLES
    pc,        \* position of the running script or call
    arg,       \* argument of the function under call
    ret,       \* value returned by the call
    ret2,      \* value returned by applying normalize_sport to ret
    listing,   \* the directory listing the collector iterates over
    pos,       \* number of listing entries the loop has consumed
    index,     \* normalise_strava.py / preprocess_tcx.py: index
    features,  \* normalise_strava.py: features
    segments,  \* preprocess_tcx.py: segments
    handles,   \* file objects opened and not yet closed
    log,       \* filenames printed by "Failed to parse"
    written    \* output artifacts written so far

vars == <<pc, arg, ret, ret2, listing, pos, index, features, segments,
          handles, log, written>>
callVars == <<arg, ret, ret2>>
batchVars == <<listing, pos, index, features, segments, handles, log, written>>

None == <<>>
Some(v) == <<v>>
Val(o) == o[1]

IdleCall == arg = None /\ ret = None /\ ret2 = None
IdleBatch ==
    /\ listing = <<>> /\ pos = 0 /\ index = <<>> /\ features = <<>>
    /\ segments = <<>> /\ handles = {} /\ log = <<>> /\ written = {}

(***************************************************************************)
(* Bounds of the input domains.                                            *)
(***************************************************************************)
MaxPad == 1        \* whitespace characters around a sport label
MaxTrackpoints == 3
MaxLaps == 2
MaxRecords == 3
MaxSessions == 2
MaxFiles == 2

(***************************************************************************)
(* str methods used by the scripts.                                        *)
(***************************************************************************)
Lowers == <<"a","b","c","d","e","f","g","h","i","j","k","l","m",
            "n","o","p","q","r","s","t","u","v","w","x","y","z">>
Uppers == <<"A","B","C","D","E","F","G","H","I","J","K","L","M",
            "N","O","P","Q","R","S","T","U","V","W","X","Y","Z">>
Whitespace == {" ", "\t"}

IsUpper(c) == \E i \in 1..Len(Uppers) : Uppers[i] = c
IsLower(c) == \E i \in 1..Len(Lowers) : Lowers[i] = c
IsCased(c) == IsUpper(c) \/ IsLower(c)
ToLower(c) == IF IsUpper(c) THEN Lowers[CHOOSE i \in 1..Len(Uppers) : Uppers[i] = c] ELSE c
ToUpper(c) == IF IsLower(c) THEN Uppers[CHOOSE i \in 1..Len(Lowers) : Lowers[i] = c] ELSE c

\* str.lower()
lower(s) == [i \in 1..Len(s) |-> ToLower(s[i])]

RECURSIVE lstrip(_)
lstrip(s) == IF s /= <<>> /\ s[1] \in Whitespace THEN lstrip(Tail(s)) ELSE s

RECURSIVE rstrip(_)
rstrip(s) ==
    IF s /= <<>> /\ s[Len(s)] \in Whitespace
    THEN rstrip(SubSeq(s, 1, Len(s) - 1)) ELSE s

\* str.strip()
strip(s) == rstrip(lstrip(s))

\* str.title(): a cased character is upper-cased when the character before
\* it is not cased, and lower-cased otherwise.
title(s) ==
    [i \in 1..Len(s) |->
        IF ~IsCased(s[i]) THEN s[i]
        ELSE IF i > 1 /\ IsCased(s[i - 1]) THEN ToLower(s[i])
        ELSE ToUpper(s[i])]

\* str.endswith(suffix)
endswith(s, suffix) ==
    /\ Len(suffix) <= Len(s)
    /\ SubSeq(s, Len(s) - Len(suffix) + 1, Len(s)) = suffix

(***************************************************************************)
(* normalise_strava.py: normalize_sport                                    *)
(***************************************************************************)
cycling == <<"c","y","c","l","i","n","g">>
bike == <<"b","i","k","e">>
biking == <<"b","i","k","i","n","g">>
running == <<"r","u","n","n","i","n","g">>
Biking == <<"B","i","k","i","n","g">>
Running == <<"R","u","n","n","i","n","g">>
Unknown == <<"U","n","k","n","o","w","n">>

\* Truthiness of an optional string: None and "" are falsy.
TruthyStr(o) == o /= None /\ Val(o) /= <<>>

normalize_sport_nostrip(raw_sport) ==
    LET s == lower(IF TruthyStr(raw_sport) THEN Val(raw_sport) ELSE <<>>)
    IN  IF s \in {cycling, bike, biking} THEN Biking
        ELSE IF s \in {running} THEN Running
        ELSE IF TruthyStr(raw_sport) THEN title(Val(raw_sport)) ELSE Unknown

normalize_sport(raw_sport) ==
    LET s == lower(strip(IF TruthyStr(raw_sport) THEN Val(raw_sport) ELSE <<>>))
    IN  IF s \in {cycling, bike, biking} THEN Biking
        ELSE IF s \in {running} THEN Running
        ELSE IF TruthyStr(raw_sport) THEN title(Val(raw_sport)) ELSE Unknown

\* Every way of writing word w in upper and lower case.
RECURSIVE Casings(_)
Casings(w) ==
    IF w = <<>> THEN {<<>>}
    ELSE {<<c>> \o t : c \in {w[1], ToUpper(w[1])}, t \in Casings(Tail(w))}

RECURSIVE Spaces(_)
Spaces(n) == IF n = 0 THEN <<>> ELSE <<" ">> \o Spaces(n - 1)

Padded(S) == {Spaces(l) \o s \o Spaces(r) : l \in 0..MaxPad, r \in 0..MaxPad, s \in S}

TableWords == {cycling, bike, biking, running}
OtherWords ==
    {<<"r","u","n">>, <<"s","w","i","m","m","i","n","g">>,
     <<"t","r","a","i","l"," ","r","u","n">>, <<"u","n","k","n","o","w","n">>,
     <<"b","i","k","e","s">>, <<"e","-","b","i","k","e">>, <<"o","t","h","e","r">>}

SportLabels ==
    UNION {Casings(w) : w \in TableWords}
        \cup UNION {Casings(w) : w \in {<<"r","u","n">>, <<"s","w","i","m">>}}
        \cup OtherWords
        \cup {title(w) : w \in OtherWords}
        \cup {Biking, Running, Unknown, <<>>}

SportInputs == {None} \cup {Some(s) : s \in Padded(SportLabels)}

InitSport ==
    /\ pc = "normalize_sport"
    /\ arg \in SportInputs
    /\ ret = None /\ ret2 = None
    /\ IdleBatch

Normalize ==
    /\ pc = "normalize_sport"
    /\ ret' = Some(normalize_sport(arg))
    /\ pc' = "renormalize_sport"
    /\ UNCHANGED <<arg, ret2, batchVars>>

Renormalize ==
    /\ pc = "renormalize_sport"
    /\ ret2' = Some(normalize_sport(ret))
    /\ pc' = "done"
    /\ UNCHANGED <<arg, ret, batchVars>>

NextSport == Normalize \/ Renormalize

SpecSport == InitSport /\ [][NextSport]_vars


(***************************************************************************)
(* C7 (as stated): normalize_sport is idempotent; every casing of          *)
(* "cycling", "bike" or "biking" gives "Biking" and every casing of        *)
(* "running" gives "Running"; empty or absent input gives "Unknown"; any   *)
(* other non-empty input gives its title-cased form.                       *)
(***************************************************************************)
IsCasingOf(s, w) ==
    /\ Len(s) = Len(w)
    /\ \A i \in 1..Len(w) : s[i] \in {w[i], ToUpper(w[i])}

C7_AsStated ==
    pc = "done" =>
        /\ ret2 = ret
        /\ IF ~TruthyStr(arg) THEN Val(ret) = Unknown
           ELSE IF \E w \in {cycling, bike, biking} : IsCasingOf(Val(arg), w)
                THEN Val(ret) = Biking
           ELSE IF IsCasingOf(Val(arg), running) THEN Val(ret) = Running
           ELSE Val(ret) = title(Val(arg))

(***************************************************************************)
(* C7 (amended): normalize_sport is idempotent; every casing of "cycling", *)
(* "bike" or "biking", with or without surrounding whitespace, gives       *)
(* "Biking" and every such casing of "running" gives "Running"; empty or   *)
(* absent input gives "Unknown"; any other non-empty input gives its       *)
(* title-cased form.                                                       *)
(***************************************************************************)
C7_Normalize ==
    pc = "done" =>
        /\ ret2 = ret
        /\ IF ~TruthyStr(arg) THEN Val(ret) = Unknown
           ELSE IF \E w \in {cycling, bike, biking} : IsCasingOf(strip(Val(arg)), w)
                THEN Val(ret) = Biking
           ELSE IF IsCasingOf(strip(Val(arg)), running) THEN Val(ret) = Running
           ELSE Val(ret) = title(Val(arg))

C7_Witness ==
    /\ pc = "done"
    /\ arg = Some(<<" ","B","i","K","E">>)
    /\ ret = Some(Biking)
    /\ ret2 = Some(Biking)

(***************************************************************************)
(* normalise_strava.py: load_json_meta                                     *)
(* A JSON object is a function from its keys to optional values; a value   *)
(* other than null is kept as its JSON text.                               *)
(***************************************************************************)
get(d, k) == IF k \in DOMAIN d THEN d[k] ELSE None
put(d, k, v) == [x \in DOMAIN d \cup {k} |-> IF x = k THEN v ELSE d[x]]
setdefault(d, k, v) == IF k \in DOMAIN d THEN d ELSE put(d, k, v)

DefaultedKeys ==
    <<"duration_s", "distance_m", "calories", "avg_hr", "max_hr",
      "elevation_gain_m", "avg_pace_s", "cadence">>

RECURSIVE setdefaults(_, _)
setdefaults(meta, ks) ==
    IF ks = <<>> THEN meta
    ELSE setdefaults(setdefault(meta, Head(ks), None), Tail(ks))

Raised == [raised |-> TRUE]
Returned(m, p) == [raised |-> FALSE, meta |-> m, pts |-> p]

\* json.load raises on a file that is not JSON.
load_json_meta(file) ==
    IF file.malformed THEN Raised
    ELSE LET data == file.data
             meta == put(data, "sport", Some(normalize_sport(get(data, "sport"))))
         IN  Returned(setdefaults(meta, DefaultedKeys), None)

OptionalFields ==
    {"start_time", "duration_s", "distance_m", "calories", "avg_hr", "max_hr",
     "elevation_gain_m", "avg_pace_s", "cadence"}
run == <<"r","u","n">>

JsonSportValues == {None, Some(<<>>), Some(run), Some(running), Some(<<" ","B","I","K","E">>)}
JsonValues(k) ==
    IF k = "sport" THEN JsonSportValues
    ELSE IF k = "activityId" THEN {Some(<<"a","1">>)}
    ELSE IF k = "calories" THEN {None, Some(<<"0">>), Some(<<"3","0","0">>)}
    ELSE {Some(<<"7">>)}

JsonKeys == OptionalFields \cup {"sport", "activityId"}
RECURSIVE JsonObjects(_)
JsonObjects(K) ==
    IF K = {} THEN {[k \in {} |-> None]}
    ELSE LET k == CHOOSE x \in K : TRUE
         IN  {put(d, k, v) : d \in JsonObjects(K \ {k}), v \in JsonValues(k)}

JsonMalformed == [malformed |-> TRUE]
JsonFile(d) == [malformed |-> FALSE, data |-> d]
JsonInputs ==
    {JsonMalformed} \cup {JsonFile(d) : d \in UNION {JsonObjects(K) : K \in SUBSET JsonKeys}}

InitJson ==
    /\ pc = "load_json_meta"
    /\ arg \in JsonInputs
    /\ ret = None /\ ret2 = None
    /\ IdleBatch

LoadJson ==
    /\ pc = "load_json_meta"
    /\ ret' = load_json_meta(arg)
    /\ pc' = "done"
    /\ UNCHANGED <<arg, ret2, batchVars>>

NextJson == LoadJson

SpecJson == InitJson /\ [][NextJson]_vars

(***************************************************************************)
(* C3: load_json_meta never fabricates a value: each of the nine optional  *)
(* fields whose key is missing is present in the result as an explicit     *)
(* null, every key that is present is passed through unchanged, no         *)
(* coordinate sequence is produced, and for {"sport": "run"} all nine      *)
(* optional fields are null and sport is "Running".                        *)
(***************************************************************************)
C3_AsStated ==
    (pc = "done" /\ ~ret.raised) =>
        /\ \A k \in OptionalFields \ DOMAIN arg.data :
              k \in DOMAIN ret.meta /\ ret.meta[k] = None
        /\ \A k \in DOMAIN arg.data \ {"sport"} : ret.meta[k] = arg.data[k]
        /\ ret.pts = None
        /\ (DOMAIN arg.data = {"sport"} /\ arg.data["sport"] = Some(run)) =>
              /\ ret.meta["sport"] = Some(Running)
              /\ \A k \in OptionalFields :
                    k \in DOMAIN ret.meta /\ ret.meta[k] = None

(***************************************************************************)
(* Arithmetic shared by the extractors.                                    *)
(***************************************************************************)
RECURSIVE SumSeq(_)
SumSeq(q) == IF q = <<>> THEN 0 ELSE Head(q) + SumSeq(Tail(q))

RECURSIVE MaxSeq(_)
MaxSeq(q) ==
    IF Len(q) = 1 THEN q[1]
    ELSE LET m == MaxSeq(Tail(q)) IN IF q[1] >= m THEN q[1] ELSE m

SelectSome(q) == SelectSeq(q, LAMBDA o : o /= None)
Vals(q) == [i \in 1..Len(q) |-> Val(q[i])]

\* The integer nearest to n / d (d > 0), a tie going to the even one, as
\* round() does.
RoundDiv(n, d) ==
    LET q == n \div d
        r == n % d
    IN  IF 2 * r < d THEN q
        ELSE IF 2 * r > d THEN q + 1
        ELSE IF q % 2 = 0 THEN q ELSE q + 1

\* os.path.basename
basename(path) ==
    LET cuts == {i \in 1..Len(path) : path[i] = "/"}
    IN  IF cuts = {} THEN path
        ELSE SubSeq(path, (CHOOSE i \in cuts : \A j \in cuts : j <= i) + 1, Len(path))

(***************************************************************************)
(* normalise_strava.py: parse_tcx                                          *)
(* A document is its Activity element (absent, or its optional Sport       *)
(* attribute), its Lap elements and its Trackpoint elements in document    *)
(* order.                                                                  *)
(***************************************************************************)
\* float(l.get(name, "0")), int(l.findtext(name, "0", ns))
OrZero(o) == IF o = None THEN 0 ELSE Val(o)

TrackpointStep_NoUpdateOnDescent(st, tp) ==
    IF tp.Position = None \/ tp.Time = None THEN st
    ELSE LET st1 == [st EXCEPT !.pts = Append(@, Val(tp.Position))]
         IN  IF tp.AltitudeMeters /= None
             THEN LET e == Val(tp.AltitudeMeters)
                  IN  IF st.prev_elev /= None /\ e > Val(st.prev_elev)
                      THEN [st1 EXCEPT !.elev_gain = @ + (e - Val(st.prev_elev)),
                                       !.prev_elev = Some(e)]
                      ELSE IF st.prev_elev = None
                           THEN [st1 EXCEPT !.prev_elev = Some(e)]
                           ELSE st1
             ELSE st1

\* One iteration of the Trackpoint loop.
TrackpointStep(st, tp) ==
    IF tp.Position = None \/ tp.Time = None THEN st
    ELSE LET st1 == [st EXCEPT !.pts = Append(@, Val(tp.Position))]
         IN  IF tp.AltitudeMeters /= None
             THEN LET e == Val(tp.AltitudeMeters)
                  IN  [st1 EXCEPT
                          !.elev_gain =
                              IF st.prev_elev /= None /\ e > Val(st.prev_elev)
                              THEN @ + (e - Val(st.prev_elev)) ELSE @,
                          !.prev_elev = Some(e)]
             ELSE st1

RECURSIVE TrackpointWalk(_, _)
TrackpointWalk(st, tps) ==
    IF tps = <<>> THEN st
    ELSE TrackpointWalk(TrackpointStep(st, Head(tps)), Tail(tps))

\* avg_pace_s before rounding, kept as the exact quotient num / den.
TcxPace(total_time, distance) ==
    IF distance /= 0 THEN Some([num |-> total_time * 1000, den |-> distance])
    ELSE None

\* round(avg_pace_s, 1) if avg_pace_s else None, in tenths
TcxRoundPace(avg_pace_s) ==
    IF avg_pace_s /= None /\ Val(avg_pace_s).num /= 0
    THEN Some(RoundDiv(10 * Val(avg_pace_s).num, Val(avg_pace_s).den))
    ELSE None

parse_tcx(path, doc) ==
    IF doc.activity = None THEN Raised
    ELSE
    LET raw_sport  == IF Val(doc.activity) = None THEN Unknown
                      ELSE Val(Val(doc.activity))
        laps       == doc.laps
        total_time == SumSeq([i \in 1..Len(laps) |-> OrZero(laps[i].TotalTimeSeconds)])
        distance   == SumSeq([i \in 1..Len(laps) |-> OrZero(laps[i].DistanceMeters)])
        calories   == SumSeq([i \in 1..Len(laps) |-> OrZero(laps[i].Calories)])
        avg_hrs    == Vals(SelectSome([i \in 1..Len(laps) |-> laps[i].AverageHeartRateBpm]))
        max_hrs    == Vals(SelectSome([i \in 1..Len(laps) |-> laps[i].MaximumHeartRateBpm]))
        walk       == TrackpointWalk([pts |-> <<>>, prev_elev |-> None, elev_gain |-> 0],
                                     doc.trackpoints)
    IN  IF laps = <<>> THEN Raised
        ELSE Returned(
            [activityId       |-> basename(path),
             sport            |-> Some(normalize_sport(Some(raw_sport))),
             start_time       |-> laps[1].StartTime,
             duration_s       |-> Some(total_time),
             distance_m       |-> Some(distance),
             calories         |-> Some(calories),
             avg_hr           |-> IF avg_hrs /= <<>> /\ SumSeq(avg_hrs) /= 0
                                  THEN Some(RoundDiv(10 * SumSeq(avg_hrs), Len(avg_hrs)))
                                  ELSE None,
             max_hr           |-> IF max_hrs /= <<>> THEN Some(MaxSeq(max_hrs)) ELSE None,
             elevation_gain_m |-> Some(RoundDiv(walk.elev_gain, 10)),
             avg_pace_s       |-> TcxRoundPace(TcxPace(total_time, distance))],
            walk.pts)

TcxPath == <<"r","a","w","/","a",".","t","c","x">>
TcxAltitudes == {10000, 10500, 10200, 11004}
TcxPoint == <<77, 12>>
TcxTime == <<"T","0">>
TcxTrackpoints ==
    {[Time |-> tp[1], Position |-> tp[2], AltitudeMeters |-> a] :
        tp \in {<<Some(TcxTime), Some(TcxPoint)>>, <<None, Some(TcxPoint)>>,
                <<Some(TcxTime), None>>},
        a \in {None} \cup {Some(e) : e \in TcxAltitudes}}
TcxLaps ==
    {[TotalTimeSeconds |-> t, DistanceMeters |-> d, Calories |-> Some(250),
      AverageHeartRateBpm |-> hr,
      MaximumHeartRateBpm |-> IF hr = None THEN None ELSE Some(Val(hr) + 20),
      StartTime |-> Some(TcxTime)] :
        t \in {None, Some(0), Some(1800), Some(3600)},
        d \in {None, Some(0), Some(5000), Some(10000)},
        hr \in {None, Some(151)}}
TcxOneLap ==
    <<[TotalTimeSeconds |-> Some(3600), DistanceMeters |-> Some(10000),
       Calories |-> Some(250), AverageHeartRateBpm |-> Some(140),
       MaximumHeartRateBpm |-> Some(160), StartTime |-> Some(TcxTime)]>>
TcxTwoPoints ==
    <<[Time |-> Some(TcxTime), Position |-> Some(TcxPoint), AltitudeMeters |-> Some(10000)],
      [Time |-> Some(TcxTime), Position |-> Some(TcxPoint), AltitudeMeters |-> Some(10500)]>>

TcxDoc(a, laps, tps) == [activity |-> a, laps |-> laps, trackpoints |-> tps]

\* Documents that vary the Trackpoint elements, and documents that vary the
\* Activity and Lap elements.
InitTcx ==
    /\ pc = "parse_tcx"
    /\ \/ \E k \in 0..MaxTrackpoints : \E tps \in [1..k -> TcxTrackpoints] :
             arg = [path |-> TcxPath, doc |-> TcxDoc(Some(Some(biking)), TcxOneLap, tps)]
       \/ \E a \in {None, Some(None), Some(Some(running))} :
             \E k \in 0..MaxLaps : \E laps \in [1..k -> TcxLaps] :
                arg = [path |-> TcxPath, doc |-> TcxDoc(a, laps, TcxTwoPoints)]
    /\ ret = None /\ ret2 = None
    /\ IdleBatch

ParseTcx ==
    /\ pc = "parse_tcx"
    /\ ret' = parse_tcx(arg.path, arg.doc)
    /\ pc' = "done"
    /\ UNCHANGED <<arg, ret2, batchVars>>

NextTcx == ParseTcx

SpecTcx == InitTcx /\ [][NextTcx]_vars

\* The sum of the strictly positive differences between consecutive values.
RECURSIVE PositiveDeltas(_)
PositiveDeltas(a) ==
    IF Len(a) < 2 THEN 0
    ELSE (IF a[2] > a[1] THEN a[2] - a[1] ELSE 0) + PositiveDeltas(Tail(a))

AltitudesOf(tps) ==
    LET q == SelectSeq(tps, LAMBDA tp : tp.AltitudeMeters /= None)
    IN  [i \in 1..Len(q) |-> Val(q[i].AltitudeMeters)]

(***************************************************************************)
(* C5 (as stated): parse_tcx's elevation_gain_m is the sum, to one         *)
(* decimal, of the strictly positive differences between consecutive       *)
(* altitude values over every Trackpoint that has an altitude value.       *)
(***************************************************************************)
C5_AsStated ==
    (pc = "done" /\ ~ret.raised) =>
        ret.meta.elevation_gain_m =
            Some(RoundDiv(PositiveDeltas(AltitudesOf(arg.doc.trackpoints)), 10))

(***************************************************************************)
(* C5 (amended): parse_tcx's elevation_gain_m is the sum, rounded to one   *)
(* decimal, of the strictly positive differences between consecutive       *)
(* altitude values over every Trackpoint that has a Position, a Time and   *)
(* an altitude value, in document order; descents are never subtracted and *)
(* every such point becomes the previous altitude of the next.             *)
(***************************************************************************)
C5_ElevationGain ==
    (pc = "done" /\ ~ret.raised) =>
        ret.meta.elevation_gain_m =
            Some(RoundDiv(PositiveDeltas(AltitudesOf(
                SelectSeq(arg.doc.trackpoints,
                          LAMBDA tp : tp.Position /= None /\ tp.Time /= None))), 10))

C5_Witness ==
    /\ pc = "done"
    /\ ~ret.raised
    /\ Len(arg.doc.trackpoints) = 3
    /\ AltitudesOf(arg.doc.trackpoints) = <<10500, 10200, 11004>>
    /\ \A i \in 1..3 : arg.doc.trackpoints[i].Position /= None
                        /\ arg.doc.trackpoints[i].Time /= None
    /\ ret.meta.elevation_gain_m = Some(80)

(***************************************************************************)
(* C6: in parse_tcx, avg_pace_s is absent when distance_m is 0 and, when   *)
(* distance_m > 0, is duration_s / (distance_m / 1000) rounded to one      *)
(* decimal; it is never absent for a positive distance.                    *)
(***************************************************************************)
C6_AsStated ==
    (pc = "done" /\ ~ret.raised) =>
        LET duration_s == Val(ret.meta.duration_s)
            distance_m == Val(ret.meta.distance_m)
        IN  /\ distance_m = 0 => ret.meta.avg_pace_s = None
            /\ distance_m > 0 =>
                  ret.meta.avg_pace_s = Some(RoundDiv(duration_s * 10000, distance_m))

(***************************************************************************)
(* normalise_strava.py: parse_fit                                          *)
(* A FIT file is its record messages and its session messages, each the    *)
(* dictionary get_values() returns; a corrupt file makes FitFile raise.    *)
(***************************************************************************)
\* Truthiness of an optional number: None and 0 are falsy.
TruthyNum(o) == o /= None /\ Val(o) /= 0

\* v * (180 / 2**31), which is v * 45 / 2**29, for v a multiple of 2**22
SemicirclesToDegrees(v) == ((v \div 2^22) * 45) \div 2^7

\* datetime.isoformat()
Digits == <<"0","1","2","3","4","5","6","7","8","9">>
isoformat(ts) == <<"T", Digits[ts + 1]>>

\* One iteration of the loop over record messages.
FitRecordStep(st, vals) ==
    LET lat == vals.position_lat
        lon == vals.position_long
        ts  == vals.timestamp
        ele == IF TruthyNum(vals.enhanced_altitude) THEN vals.enhanced_altitude
               ELSE vals.altitude
    IN  [pts |-> IF TruthyNum(lat) /\ TruthyNum(lon)
                 THEN Append(st.pts, <<SemicirclesToDegrees(Val(lon)),
                                       SemicirclesToDegrees(Val(lat))>>)
                 ELSE st.pts,
         start_time |-> IF ts /= None /\ st.start_time = None
                        THEN Some(isoformat(Val(ts))) ELSE st.start_time,
         distance_m |-> IF TruthyNum(vals.distance) THEN vals.distance
                        ELSE st.distance_m,
         hr_samples |-> IF TruthyNum(vals.heart_rate)
                        THEN Append(st.hr_samples, Val(vals.heart_rate))
                        ELSE st.hr_samples,
         elev_gain  |-> IF ele /= None /\ st.prev_elev /= None
                           /\ Val(ele) > Val(st.prev_elev)
                        THEN st.elev_gain + (Val(ele) - Val(st.prev_elev))
                        ELSE st.elev_gain,
         prev_elev  |-> IF ele /= None THEN ele ELSE st.prev_elev,
         cadence    |-> IF TruthyNum(vals.cadence) THEN vals.cadence ELSE st.cadence]

RECURSIVE FitRecords(_, _)
FitRecords(st, msgs) ==
    IF msgs = <<>> THEN st
    ELSE FitRecords(FitRecordStep(st, Head(msgs)), Tail(msgs))

\* One iteration of the loop over session messages.
FitSessionStep(st, v) ==
    [sport      |-> IF TruthyStr(v.sport) /\ ~TruthyStr(st.sport)
                    THEN Some(normalize_sport(v.sport)) ELSE st.sport,
     duration_s |-> IF TruthyNum(v.total_elapsed_time) /\ ~TruthyNum(st.duration_s)
                    THEN v.total_elapsed_time ELSE st.duration_s,
     calories   |-> IF TruthyNum(v.total_calories) /\ ~TruthyNum(st.calories)
                    THEN v.total_calories ELSE st.calories]

RECURSIVE FitSessions(_, _)
FitSessions(st, msgs) ==
    IF msgs = <<>> THEN st
    ELSE FitSessions(FitSessionStep(st, Head(msgs)), Tail(msgs))

\* FitFile raises on a stream that is not FIT data: a corrupt file, a
\* gzipped file read plainly, or a plain file read through gzip.
parse_fit(path, file, compressed) ==
    IF file.corrupt \/ file.gzipped /= compressed THEN Raised
    ELSE
    LET rec == FitRecords([pts |-> <<>>, start_time |-> None, distance_m |-> None,
                           hr_samples |-> <<>>, elev_gain |-> 0, prev_elev |-> None,
                           cadence |-> None], file.records)
        ses == FitSessions([sport |-> None, duration_s |-> None, calories |-> None],
                           file.sessions)
    IN  Returned(
            [activityId       |-> basename(path),
             sport            |-> ses.sport,
             start_time       |-> rec.start_time,
             duration_s       |-> ses.duration_s,
             distance_m       |-> rec.distance_m,
             calories         |-> ses.calories,
             avg_hr           |-> IF rec.hr_samples /= <<>>
                                  THEN Some(RoundDiv(10 * SumSeq(rec.hr_samples),
                                                     Len(rec.hr_samples)))
                                  ELSE None,
             max_hr           |-> IF rec.hr_samples /= <<>>
                                  THEN Some(MaxSeq(rec.hr_samples)) ELSE None,
             elevation_gain_m |-> IF rec.elev_gain /= 0
                                  THEN Some(RoundDiv(rec.elev_gain, 10)) ELSE None,
             avg_pace_s       |-> IF TruthyNum(rec.distance_m) /\ TruthyNum(ses.duration_s)
                                  THEN Some(RoundDiv(Val(ses.duration_s) * 10000,
                                                     Val(rec.distance_m)))
                                  ELSE None,
             cadence          |-> rec.cadence],
            rec.pts)

FitPath == <<"r","a","w","/","c",".","f","i","t">>
FitDistances == {None, Some(0), Some(100), Some(250), Some(200)}
FitRecordMsgs ==
    {[position_lat |-> None, position_long |-> None, timestamp |-> None,
      distance |-> d, heart_rate |-> None, enhanced_altitude |-> None,
      altitude |-> None, cadence |-> None] : d \in FitDistances}
    \cup
    {[position_lat |-> Some(2^29), position_long |-> Some(2^30), timestamp |-> Some(1),
      distance |-> d, heart_rate |-> Some(120), enhanced_altitude |-> Some(10000),
      altitude |-> Some(9000), cadence |-> Some(80)] : d \in FitDistances}
    \cup
    {[position_lat |-> Some(0), position_long |-> Some(2^29), timestamp |-> Some(2),
      distance |-> d, heart_rate |-> Some(151), enhanced_altitude |-> None,
      altitude |-> Some(10504), cadence |-> Some(0)] : d \in FitDistances}
FitSessionMsgs ==
    {[sport |-> sp, total_elapsed_time |-> t, total_calories |-> c] :
        sp \in {None, Some(running), Some(cycling), Some(<<"h","i","k","i","n","g">>)},
        t \in {None, Some(0), Some(1800), Some(3600)},
        c \in {None, Some(0), Some(300)}}
FitOneRecord ==
    <<[position_lat |-> Some(2^29), position_long |-> Some(2^30), timestamp |-> Some(1),
       distance |-> Some(5000), heart_rate |-> Some(120),
       enhanced_altitude |-> Some(10000), altitude |-> Some(9000), cadence |-> Some(80)]>>
FitOneSession ==
    <<[sport |-> Some(running), total_elapsed_time |-> Some(1800),
       total_calories |-> Some(300)]>>

FitFile(c, z, r, ss) == [corrupt |-> c, gzipped |-> z, records |-> r, sessions |-> ss]

\* Files that vary the record messages, files that vary the session
\* messages, and files FitFile may refuse.
InitFit ==
    /\ pc = "parse_fit"
    /\ \/ \E k \in 0..MaxRecords : \E r \in [1..k -> FitRecordMsgs] :
             arg = [path |-> FitPath, file |-> FitFile(FALSE, FALSE, r, FitOneSession),
                    compressed |-> FALSE]
       \/ \E k \in 0..MaxSessions : \E ss \in [1..k -> FitSessionMsgs] :
             arg = [path |-> FitPath, file |-> FitFile(FALSE, FALSE, FitOneRecord, ss),
                    compressed |-> FALSE]
       \/ \E c \in BOOLEAN, z \in BOOLEAN, compressed \in BOOLEAN :
             arg = [path |-> FitPath,
                    file |-> FitFile(c, z, FitOneRecord, FitOneSession),
                    compressed |-> compressed]
    /\ ret = None /\ ret2 = None
    /\ IdleBatch

ParseFit ==
    /\ pc = "parse_fit"
    /\ ret' = parse_fit(arg.path, arg.file, arg.compressed)
    /\ pc' = "done"
    /\ UNCHANGED <<arg, ret2, batchVars>>

NextFit == ParseFit

SpecFit == InitFit /\ [][NextFit]_vars

\* The last (first) value that is present in a sequence of optional values.
LastSome(q) == IF SelectSome(q) = <<>> THEN None ELSE SelectSome(q)[Len(SelectSome(q))]
FirstSome(q) == IF SelectSome(q) = <<>> THEN None ELSE SelectSome(q)[1]

(***************************************************************************)
(* C4: after parse_fit has processed the record messages, distance_m is    *)
(* the distance of the last record whose distance field is present, and is *)
(* absent if no record carries a distance.                                 *)
(***************************************************************************)
C4_AsStated ==
    (pc = "done" /\ ~ret.raised) =>
        ret.meta.distance_m =
            LastSome([i \in 1..Len(arg.file.records) |-> arg.file.records[i].distance])

(***************************************************************************)
(* C9: in parse_fit each of sport, duration_s and calories takes its value *)
(* from the first session message that carries that field and no later     *)
(* session message replaces it; none is set from a record message, and     *)
(* sport is stored normalized.                                             *)
(***************************************************************************)
C9_AsStated ==
    (pc = "done" /\ ~ret.raised) =>
        LET ss == arg.file.sessions
            sport == FirstSome([i \in 1..Len(ss) |-> ss[i].sport])
        IN  /\ ret.meta.sport =
                  IF sport = None THEN None ELSE Some(normalize_sport(sport))
            /\ ret.meta.duration_s =
                  FirstSome([i \in 1..Len(ss) |-> ss[i].total_elapsed_time])
            /\ ret.meta.calories =
                  FirstSome([i \in 1..Len(ss) |-> ss[i].total_calories])

(***************************************************************************)
(* normalise_strava.py: parse_gpx                                          *)
(* A GPX file is the parsed gpxpy document: its tracks (each a sequence of *)
(* segments, each a sequence of points) and the length gpxpy computes for  *)
(* it; gpxpy.parse raises on a malformed file.                             *)
(***************************************************************************)
\* sub in s
contains(s, sub) ==
    \E i \in 1..(Len(s) - Len(sub) + 1) : SubSeq(s, i, i + Len(sub) - 1) = sub

RECURSIVE Flatten(_)
Flatten(qq) == IF qq = <<>> THEN <<>> ELSE Head(qq) \o Flatten(Tail(qq))

parse_gpx(path, file) ==
    IF file.malformed THEN Raised
    ELSE
    LET tracks == file.tracks
        points == Flatten(Flatten(tracks))
        pts    == [i \in 1..Len(points) |-> <<points[i].longitude, points[i].latitude>>]
    IN  IF tracks = <<>> \/ tracks[1] = <<>> \/ tracks[1][1] = <<>> THEN Raised
        ELSE IF tracks[1][1][1].time = None THEN Raised
        ELSE Returned(
            [activityId       |-> basename(path),
             sport            |-> Some(normalize_sport(
                                      Some(IF contains(lower(path), run)
                                           THEN Running ELSE Biking))),
             start_time       |-> Some(isoformat(Val(tracks[1][1][1].time))),
             duration_s       |-> None,
             distance_m       |-> Some(file.length_2d),
             calories         |-> None,
             avg_hr           |-> None,
             max_hr           |-> None,
             elevation_gain_m |-> None,
             avg_pace_s       |-> None],
            pts)

(***************************************************************************)
(* normalise_strava.py: the main process loop                              *)
(* The directory is a sequence of entries, each a file name and the file's *)
(* content.  handles holds the paths of the file objects that were opened  *)
(* and not closed by a close() call or a with block; the interpreter       *)
(* finalizes such an object at a moment of its own choosing.               *)
(***************************************************************************)
RAW_DIR == <<"r","a","w">>
OUT_INDEX == <<"a","c","t","i","v","i","t","y","_","i","n","d","e","x",".","j","s","o","n">>
OUT_GEOJSON == <<"s","e","g","m","e","n","t","s",".","g","e","o","j","s","o","n">>

\* os.path.join
join(dir, name) == dir \o <<"/">> \o name

dot_tcx == <<".","t","c","x">>
dot_gpx == <<".","g","p","x">>
dot_fit == <<".","f","i","t">>
dot_fit_gz == <<".","f","i","t",".","g","z">>
dot_json == <<".","j","s","o","n">>

Skipped == [raised |-> FALSE, skipped |-> TRUE]

\* The if/elif chain of the try block: the extractor's result, or Skipped
\* for the final else.
Extract(fname, content) ==
    LET low  == lower(fname)
        path == join(RAW_DIR, fname)
    IN  IF endswith(low, dot_tcx) THEN parse_tcx(path, content)
        ELSE IF endswith(low, dot_gpx) THEN parse_gpx(path, content)
        ELSE IF endswith(low, dot_fit) THEN parse_fit(path, content, FALSE)
        ELSE IF endswith(low, dot_fit_gz) THEN parse_fit(path, content, TRUE)
        ELSE IF endswith(low, dot_json) THEN load_json_meta(content)
        ELSE Skipped

\* The file objects an extraction leaves open: parse_fit closes fobj only
\* on its last line, parse_gpx and load_json_meta never close what they
\* open, and ET.parse closes its own file.
LeftOpen(fname, r) ==
    LET low  == lower(fname)
        path == join(RAW_DIR, fname)
    IN  IF endswith(low, dot_fit) \/ endswith(low, dot_fit_gz)
        THEN IF r.raised THEN {path} ELSE {}
        ELSE IF endswith(low, dot_gpx) \/ endswith(low, dot_json) THEN {path}
        ELSE {}

Feature(m, pts) ==
    [type |-> "Feature",
     geometry |-> [type |-> "LineString", coordinates |-> pts],
     properties |-> m]

\* if pts:
TruthyList(pts) == pts /= None /\ pts /= <<>>

Collect_MisplacedElse(acc, m, pts) ==
    IF TruthyList(pts)
    THEN [acc EXCEPT !.features = Append(@, Feature(m, pts))]
    ELSE [acc EXCEPT !.index = Append(@, m)]

\* index.append(m) and the conditional features.append(...)
Collect(acc, m, pts) ==
    LET acc1 == [acc EXCEPT !.index = Append(@, m)]
    IN  IF TruthyList(pts)
        THEN [acc1 EXCEPT !.features = Append(@, Feature(m, pts))]
        ELSE acc1

OnException_Break(fname) == [log |-> Append(log, fname), pc |-> "write_index"]

\* except Exception as e: print(...), and the loop goes on
OnException(fname) == [log |-> Append(log, fname), pc |-> "loop"]

ProcessFile ==
    /\ pc = "loop"
    /\ pos < Len(listing)
    /\ LET fname == listing[pos + 1].fname
           r     == Extract(fname, listing[pos + 1].content)
       IN  /\ pos' = pos + 1
           /\ handles' = handles \cup LeftOpen(fname, r)
           /\ IF r.raised
              THEN /\ log' = OnException(fname).log
                   /\ pc' = OnException(fname).pc
                   /\ UNCHANGED <<index, features>>
              ELSE IF "skipped" \in DOMAIN r
              THEN UNCHANGED <<pc, index, features, log>>
              ELSE LET acc == Collect([index |-> index, features |-> features],
                                      r.meta, r.pts)
                   IN  /\ index' = acc.index
                       /\ features' = acc.features
                       /\ UNCHANGED <<pc, log>>
    /\ UNCHANGED <<callVars, listing, segments, written>>

EndLoop ==
    /\ pc = "loop"
    /\ pos = Len(listing)
    /\ pc' = "write_index"
    /\ UNCHANGED <<callVars, batchVars>>

WriteIndex ==
    /\ pc = "write_index"
    /\ written' = written \cup {OUT_INDEX}
    /\ pc' = "write_geojson"
    /\ UNCHANGED <<callVars, listing, pos, index, features, segments, handles, log>>

WriteGeojson ==
    /\ pc = "write_geojson"
    /\ written' = written \cup {OUT_GEOJSON}
    /\ pc' = "done"
    /\ UNCHANGED <<callVars, listing, pos, index, features, segments, handles, log>>

\* The interpreter finalizes a file object nothing refers to any more.
Finalize ==
    /\ \E h \in handles : handles' = handles \ {h}
    /\ UNCHANGED <<pc, callVars, listing, pos, index, features, segments, log, written>>

Gpx1 == [longitude |-> 77, latitude |-> 12, time |-> Some(1)]
Gpx2 == [longitude |-> 78, latitude |-> 13, time |-> Some(2)]
BatchTcx ==
    {[activity |-> None, laps |-> <<>>, trackpoints |-> <<>>]}
    \cup {[activity |-> Some(Some(biking)), laps |-> TcxOneLap,
           trackpoints |-> SubSeq(TcxTwoPoints, 1, n)] : n \in 0..2}
BatchGpx ==
    {[malformed |-> TRUE, tracks |-> <<>>, length_2d |-> 0],
     [malformed |-> FALSE, tracks |-> <<>>, length_2d |-> 0],
     [malformed |-> FALSE, tracks |-> << << <<Gpx1>> >> >>, length_2d |-> 0],
     [malformed |-> FALSE, tracks |-> << << <<Gpx1>>, <<Gpx2>> >> >>, length_2d |-> 150]}
BatchFit ==
    {[corrupt |-> TRUE, gzipped |-> FALSE, records |-> <<>>, sessions |-> <<>>],
     [corrupt |-> FALSE, gzipped |-> FALSE, records |-> FitOneRecord,
      sessions |-> FitOneSession],
     [corrupt |-> FALSE, gzipped |-> TRUE, records |-> <<>>, sessions |-> FitOneSession],
     [corrupt |-> FALSE, gzipped |-> TRUE, records |-> FitOneRecord,
      sessions |-> FitOneSession]}
BatchJson == {JsonMalformed, JsonFile("sport" :> Some(run))}

FileNames ==
    {<<"a",".","t","c","x">>, <<"B",".","G","P","X">>, <<"c",".","f","i","t">>,
     <<"d",".","f","i","t",".","g","z">>, <<"e",".","j","s","o","n">>,
     <<"f",".","t","x","t">>}

Contents(fname) ==
    LET low == lower(fname)
    IN  IF endswith(low, dot_tcx) THEN BatchTcx
        ELSE IF endswith(low, dot_gpx) THEN BatchGpx
        ELSE IF endswith(low, dot_fit) \/ endswith(low, dot_fit_gz) THEN BatchFit
        ELSE IF endswith(low, dot_json) THEN BatchJson
        ELSE {None}

Files == UNION {{[fname |-> n, content |-> c] : c \in Contents(n)} : n \in FileNames}

\* A directory holds no two entries of one name.
Distinct(l) == \A i, j \in 1..Len(l) : i /= j => l[i].fname /= l[j].fname

InitBatch ==
    /\ pc = "loop"
    /\ \E k \in 0..MaxFiles : \E l \in [1..k -> Files] : Distinct(l) /\ listing = l
    /\ pos = 0 /\ index = <<>> /\ features = <<>> /\ segments = <<>>
    /\ handles = {} /\ log = <<>> /\ written = {}
    /\ IdleCall

NextBatch == ProcessFile \/ EndLoop \/ WriteIndex \/ WriteGeojson \/ Finalize

SpecBatch == InitBatch /\ [][NextBatch]_vars

Suffixes == {dot_tcx, dot_gpx, dot_fit, dot_fit_gz, dot_json}
Recognised(fname) ==
    \E suf \in Suffixes :
        /\ Len(suf) <= Len(fname)
        /\ IsCasingOf(SubSeq(fname, Len(fname) - Len(suf) + 1, Len(fname)), suf)

Succeeded(f) == Recognised(f.fname) /\ ~Extract(f.fname, f.content).raised
Failed(f) == Recognised(f.fname) /\ Extract(f.fname, f.content).raised

ExpectedIndex(l) ==
    LET ok == SelectSeq(l, Succeeded)
    IN  [i \in 1..Len(ok) |-> Extract(ok[i].fname, ok[i].content).meta]
ExpectedLog(l) ==
    LET bad == SelectSeq(l, Failed)
    IN  [i \in 1..Len(bad) |-> bad[i].fname]

(***************************************************************************)
(* C1: in the batch loop of normalise_strava.py the failure of one file's  *)
(* extraction never prevents the files after it from being processed: the  *)
(* writes start only when every entry has been consumed; until both        *)
(* artifacts are written the script always has a next statement to run and *)
(* every statement it runs brings the final write nearer; and at the end   *)
(* the index holds exactly one entry per file with a recognised suffix     *)
(* whose extraction succeeded, in listing order, and each failed file is   *)
(* logged.                                                                 *)
(***************************************************************************)
C1_CanRun ==
    \/ pc = "loop" /\ pos < Len(listing)
    \/ pc = "loop" /\ pos = Len(listing)
    \/ pc = "write_index"
    \/ pc = "write_geojson"

\* The number of statements left before the script is done.
C1_Left ==
    IF pc = "loop" THEN Len(listing) - pos + 3
    ELSE IF pc = "write_index" THEN 2
    ELSE IF pc = "write_geojson" THEN 1
    ELSE 0

C1_Inv ==
    /\ pc /= "done" => C1_CanRun
    /\ pc /= "loop" => pos = Len(listing)
    /\ pc = "done" =>
        /\ written = {OUT_INDEX, OUT_GEOJSON}
        /\ index = ExpectedIndex(listing)
        /\ log = ExpectedLog(listing)

C1_Step == <<pc, pos>>' /= <<pc, pos>> => C1_Left' = C1_Left - 1

C1_FaultIsolation == []C1_Inv /\ [][C1_Step]_vars

C1_Witness ==
    /\ pc = "done"
    /\ Len(listing) = 2
    /\ listing[1].fname = <<"a",".","t","c","x">> /\ Failed(listing[1])
    /\ listing[2].fname = <<"B",".","G","P","X">> /\ Succeeded(listing[2])
    /\ Len(index) = 1 /\ Len(features) = 1
    /\ log = << <<"a",".","t","c","x">> >>
    /\ written = {OUT_INDEX, OUT_GEOJSON}

(***************************************************************************)
(* C8: every file object an extraction call opens is released by that call *)
(* before the collector moves to the next file, on the normal and on the   *)
(* failure path: at the start of each loop iteration no handle of an       *)
(* earlier file is still open.                                             *)
(***************************************************************************)
C8_AsStated == pc = "loop" => handles = {}

RECURSIVE IsSubseq(_, _)
IsSubseq(a, b) ==
    \/ a = <<>>
    \/ /\ b /= <<>>
       /\ IF a[1] = b[1] THEN IsSubseq(Tail(a), Tail(b)) ELSE IsSubseq(a, Tail(b))

PropertiesOf(fs) == [i \in 1..Len(fs) |-> fs[i].properties]

C10_Inv ==
    /\ IsSubseq(PropertiesOf(features), index)
    /\ Len(features) <= Len(index)
    /\ Len(index) <= pos

C10_Step ==
    /\ index' /= index =>
          /\ pos' = pos + 1
          /\ Len(index') = Len(index) + 1
          /\ SubSeq(index', 1, Len(index)) = index
    /\ features' /= features =>
          /\ index' /= index
          /\ Len(features') = Len(features) + 1
          /\ SubSeq(features', 1, Len(features)) = features
          /\ features'[Len(features')].properties = index'[Len(index')]

(***************************************************************************)
(* C10: after every iteration of the normalise_strava.py batch loop the    *)
(* features are an order-preserving subsequence of the index: a feature's  *)
(* properties is the record appended to the index in the same iteration,   *)
(* len(features) <= len(index), and one iteration appends at most one      *)
(* index entry and at most one feature, never a feature without an entry.  *)
(***************************************************************************)
C10_FeaturesFollowIndex == []C10_Inv /\ [][C10_Step]_vars

C10_Witness ==
    /\ pc = "done"
    /\ Len(index) = 2
    /\ Len(features) = 1
    /\ features[1].properties = index[2]

(***************************************************************************)
(* preprocess_tcx.py: parse_tcx                                            *)
(* A document is its optional Activity element (with its optional Sport    *)
(* attribute) and its Lap elements, each with its Trackpoint elements;     *)
(* ET.parse raises on a file that is not XML.                              *)
(***************************************************************************)
Other == <<"O","t","h","e","r">>

\* One iteration of the loop over a lap's Trackpoint elements.
PreTrackpointStep(st, tp) ==
    IF tp.LatitudeDegrees /= None /\ tp.LongitudeDegrees /= None
    THEN [st EXCEPT
            !.coords = Append(@, <<Val(tp.LongitudeDegrees), Val(tp.LatitudeDegrees)>>),
            !.hrs  = IF tp.HeartRateBpm /= None THEN Append(@, Val(tp.HeartRateBpm)) ELSE @,
            !.alts = IF tp.AltitudeMeters /= None THEN Append(@, Val(tp.AltitudeMeters)) ELSE @,
            !.cads = IF tp.Cadence /= None THEN Append(@, Val(tp.Cadence)) ELSE @]
    ELSE st

RECURSIVE PreTrackpoints(_, _)
PreTrackpoints(st, tps) ==
    IF tps = <<>> THEN st
    ELSE PreTrackpoints(PreTrackpointStep(st, Head(tps)), Tail(tps))

\* One iteration of the loop over the Lap elements.
PreLapStep(st, lap) ==
    PreTrackpoints(
        [st EXCEPT
            !.start_time = IF @ = None THEN lap.StartTime ELSE @,
            !.total_dist = @ + OrZero(lap.DistanceMeters),
            !.total_sec  = @ + OrZero(lap.TotalTimeSeconds),
            !.total_cal  = @ + OrZero(lap.Calories)],
        lap.trackpoints)

RECURSIVE PreLaps(_, _)
PreLaps(st, laps) ==
    IF laps = <<>> THEN st ELSE PreLaps(PreLapStep(st, Head(laps)), Tail(laps))

\* Path.stem: the name without its last suffix
stem(name) ==
    LET dots == {i \in 2..Len(name) : name[i] = "."}
    IN  IF dots = {} THEN name
        ELSE SubSeq(name, 1, (CHOOSE i \in dots : \A j \in dots : j <= i) - 1)

pre_parse_tcx(file_path, file) ==
    IF file.malformed THEN Raised
    ELSE
    LET sport == IF file.activity /= None /\ Val(file.activity) /= None
                 THEN Val(Val(file.activity)) ELSE Other
        st == PreLaps([coords |-> <<>>, hrs |-> <<>>, alts |-> <<>>, cads |-> <<>>,
                       total_dist |-> 0, total_sec |-> 0, total_cal |-> 0,
                       start_time |-> None], file.laps)
    IN  [raised |-> FALSE,
         data |->
            [activityId       |-> stem(basename(file_path)),
             start_time       |-> st.start_time,
             sport            |-> sport,
             distance_m       |-> st.total_dist,
             duration_s       |-> st.total_sec,
             avg_hr           |-> IF st.hrs /= <<>>
                                  THEN Some(SumSeq(st.hrs) \div Len(st.hrs)) ELSE None,
             max_hr           |-> IF st.hrs /= <<>> THEN Some(MaxSeq(st.hrs)) ELSE None,
             avg_pace_s       |-> IF st.total_dist > 0
                                  THEN Some([num |-> st.total_sec * 1000,
                                             den |-> st.total_dist])
                                  ELSE None,
             elevation_gain_m |-> IF Len(st.alts) > 1
                                  THEN Some(PositiveDeltas(st.alts)) ELSE None,
             cadence          |-> IF st.cads /= <<>>
                                  THEN Some(SumSeq(st.cads) \div Len(st.cads)) ELSE None,
             calories         |-> st.total_cal,
             coordinates      |-> st.coords]]

(***************************************************************************)
(* preprocess_tcx.py: main                                                 *)
(***************************************************************************)
\* raw_dir.glob('*.tcx')
glob_tcx(dir) == SelectSeq(dir, LAMBDA f : endswith(f.fname, dot_tcx))

\* {k: v for k, v in data.items() if k != 'coordinates'}
PreMeta(data) == [k \in DOMAIN data \ {"coordinates"} |-> data[k]]

PreFeature(data) ==
    [type |-> "Feature",
     geometry |-> [type |-> "LineString", coordinates |-> data.coordinates],
     properties |-> [activityId |-> data.activityId]]

geojson_dir == <<"g","e","o","j","s","o","n">>
metadata_dir == <<"m","e","t","a","d","a","t","a">>

\* One iteration of the loop of main; an exception of parse_tcx is not
\* caught and ends the script.
PreProcessFile ==
    /\ pc = "pre_loop"
    /\ pos < Len(glob_tcx(listing))
    /\ LET tcx_file == glob_tcx(listing)[pos + 1]
           r == pre_parse_tcx(join(RAW_DIR, tcx_file.fname), tcx_file.content)
       IN  /\ pos' = pos + 1
           /\ IF r.raised
              THEN /\ pc' = "crashed"
                   /\ UNCHANGED <<segments, index, written>>
              ELSE IF Len(r.data.coordinates) < 2
              THEN UNCHANGED <<pc, segments, index, written>>
              ELSE /\ written' = written \cup
                          {join(geojson_dir, r.data.activityId \o <<".","g","e","o","j","s","o","n">>),
                           join(metadata_dir, r.data.activityId \o dot_json)}
                   /\ segments' = Append(segments, PreFeature(r.data))
                   /\ index' = Append(index, PreMeta(r.data))
                   /\ UNCHANGED pc
    /\ UNCHANGED <<callVars, listing, features, handles, log>>

PreEndLoop ==
    /\ pc = "pre_loop"
    /\ pos = Len(glob_tcx(listing))
    /\ pc' = "pre_write_segments"
    /\ UNCHANGED <<callVars, batchVars>>

PreWriteSegments ==
    /\ pc = "pre_write_segments"
    /\ written' = written \cup {OUT_GEOJSON}
    /\ pc' = "pre_write_index"
    /\ UNCHANGED <<callVars, listing, pos, index, features, segments, handles, log>>

PreWriteIndex ==
    /\ pc = "pre_write_index"
    /\ written' = written \cup {OUT_INDEX}
    /\ pc' = "done"
    /\ UNCHANGED <<callVars, listing, pos, index, features, segments, handles, log>>

PreTp(n) ==
    [LatitudeDegrees |-> Some(12 + n), LongitudeDegrees |-> Some(77),
     HeartRateBpm |-> Some(120 + n), AltitudeMeters |-> Some(10000 + 500 * n),
     Cadence |-> Some(80)]
PreTpNoPosition ==
    [LatitudeDegrees |-> None, LongitudeDegrees |-> None, HeartRateBpm |-> Some(100),
     AltitudeMeters |-> Some(9000), Cadence |-> None]
PreLap(tps) ==
    [StartTime |-> Some(TcxTime), DistanceMeters |-> Some(5000),
     TotalTimeSeconds |-> Some(1800), Calories |-> Some(250), trackpoints |-> tps]
PreDoc(laps) == [malformed |-> FALSE, activity |-> Some(Some(Biking)), laps |-> laps]
PreContents ==
    {[malformed |-> TRUE, activity |-> None, laps |-> <<>>],
     [malformed |-> FALSE, activity |-> None, laps |-> <<>>],
     PreDoc(<<PreLap(<<PreTpNoPosition>>)>>),
     PreDoc(<<PreLap(<<PreTp(0)>>)>>),
     PreDoc(<<PreLap(<<PreTp(0), PreTpNoPosition, PreTp(1)>>)>>),
     PreDoc(<<PreLap(<<PreTp(0)>>), PreLap(<<PreTp(1), PreTp(2)>>)>>)}
PreFileNames ==
    {<<"a",".","t","c","x">>, <<"b",".","t","c","x">>, <<"c",".","t","c","x">>,
     <<"D",".","T","C","X">>}
PreFiles == {[fname |-> n, content |-> c] : n \in PreFileNames, c \in PreContents}
InitPre ==
    /\ pc = "pre_loop"
    /\ \E k \in 0..MaxFiles : \E l \in [1..k -> PreFiles] : Distinct(l) /\ listing = l
    /\ pos = 0 /\ index = <<>> /\ features = <<>> /\ segments = <<>>
    /\ handles = {} /\ log = <<>> /\ written = {}
    /\ IdleCall

NextPre == PreProcessFile \/ PreEndLoop \/ PreWriteSegments \/ PreWriteIndex

SpecPre == InitPre /\ [][NextPre]_vars

(***************************************************************************)
(* C2: every successfully extracted record is appended to the metadata     *)
(* index however many coordinate points it has, and only the geometry      *)
(* feature is withheld below the threshold; under the "at least 2 points"  *)
(* threshold of preprocess_tcx.py a record with exactly 1 point is in the  *)
(* index and is not a feature.                                             *)
(***************************************************************************)
PreCoordinates(f) == pre_parse_tcx(join(RAW_DIR, f.fname), f.content).data.coordinates

C2_AsStated ==
    pc /= "crashed" =>
        LET done == SubSeq(glob_tcx(listing), 1, pos)
        IN  /\ Len(index) = Len(done)
            /\ \A i \in 1..Len(done) : index[i].activityId = stem(done[i].fname)
            /\ Len(segments) =
                  Len(SelectSeq(done, LAMBDA f : Len(PreCoordinates(f)) >= 2))

=============================================================================
